---------------------------- MODULE Spec2Model ----------------------------
(***************************************************************************)
(* Model of the Secalot XRP wallet JavaScript API (U2F tunnelled APDUs).   *)
(*                                                                         *)
(* Two deployed variants of the client are modelled side by side:          *)
(*   "index"   - src/src/index.js      (chunk size 8, no minimum timeout)  *)
(*   "part000" - src/unnamed/part_000  (chunk size 128, 5-byte response    *)
(*               prefix, minimum signing timeout, confirmation expiry)     *)
(*                                                                         *)
(* Bytes are naturals 0..255 written in decimal:                           *)
(*   128 = 0x80, 242 = 0xF2, 34 = 0x22, 144 = 0x90, 109 = 0x6D,            *)
(*   105 = 0x69, 130 = 0x82, 131 = 0x83, 103 = 0x67, 100 = 0x64,           *)
(*   99 = 0x63, 192 = 0xC0.                                                *)
(*                                                                         *)
(* A call of an exported operation is a record: the arguments it was       *)
(* given, the chunk queue of its closure (apdus), the requests it has      *)
(* handed to the U2F transport and that are not answered yet (inflight,    *)
(* each with the continuation that will handle the answer), the state of   *)
(* the promise it returned, and two history fields (sent, got).            *)
(***************************************************************************)
EXTENDS Integers, Sequences, FiniteSets, TLC

VARIABLES variant, calls, codec

vars == <<variant, calls, codec>>

Variants == {"index", "part000"}

(***************************************************************************)
(* Bounds of the explored inputs.                                          *)
(***************************************************************************)
\* Payloads of up to MaxChunks full chunks are signed.
MaxChunks == 3

\* signData: "Timeout should be at least 60 seconds."
MinTimeout == 60

\* Timeouts the caller passes (the demo page passes 30 and 70).
Timeouts == {30, MinTimeout - 1, MinTimeout, 70}

\* The longest byte sequence whose base64 text is converted, all sequences
\* of that length or less being tried.
MaxB64Len == 4

\* PIN lengths the caller passes, around the limits 4 and 32.
PinLengths == {3, 4, 5, 32, 33}

(***************************************************************************)
(* Byte-sequence helpers (Buffer.slice, Buffer.concat).                    *)
(***************************************************************************)
slice(buf, from, to) == SubSeq(buf, from + 1, to)

\* response[response.length - k] (k = 2, 1); -1 stands for JavaScript's
\* undefined when the index is out of range.
byteFromEnd(buf, k) == IF Len(buf) >= k THEN buf[Len(buf) - k + 1] ELSE -1


(***************************************************************************)
(* The U2F transport (u2f-api sign) and what it can answer.                *)
(***************************************************************************)
\* n payload bytes of a longer response (a public key, random data).
ResponseBytes(n) == [i \in 1..n |-> (3 * i + 1) % 256]

\* Response frames a device can produce: a status alone, a payload with a
\* status, and frames that are too short to hold a status.
DeviceFrames ==
  { <<144, 0>>, <<109, 0>>, <<105, 130>>, <<105, 131>>, <<103, 0>>,
    <<100, 1>>, <<100, 0>>, <<105, 1>>, <<106, 128>>,
    <<99, 192>>, <<99, 194>>, <<99, 207>>, <<99, 0>>, <<99, 255>>,
    <<171, 205, 144, 0>>, <<171, 109, 0>>, <<171, 105, 130>>,
    <<171, 100, 1>>, <<144>>, <<>>,
    <<171, 144, 0>>,
    <<1, 2, 3, 0, 0, 0, 0, 0, 144, 0>>, <<10, 21, 1, 0, 0, 0, 0, 0, 144, 0>>,
    <<1, 2, 3, 0, 0, 0, 0, 0, 109, 0>>,
    ResponseBytes(33) \o <<144, 0>>, ResponseBytes(65) \o <<144, 0>>,
    ResponseBytes(128) \o <<144, 0>> }

\* The 5 bytes the part_000 firmware puts in front of every response frame.
ResponsePrefix == <<1, 0, 0, 0, 0>>

\* What base64-decoding the signatureData field can yield: a bare frame, a
\* prefixed frame, or a frame behind a wrong prefix.
DecodedData ==
  DeviceFrames
    \cup { ResponsePrefix \o f : f \in DeviceFrames }
    \cup { <<2, 0, 0, 0, 0, 144, 0>>, <<1, 0, 0, 0, 1, 144, 0>> }

Error(msg) == [msg |-> msg, n |-> 0]

\* The error objects a rejected sign() promise can carry (the timeout elapsed,
\* anything else the transport reports).
TransportErrors == { Error("U2F timeout"), Error("U2F other error") }

\* The outcomes of one sign([signRequest], timeout) call: the promise rejects
\* with an error object, or resolves with a response object that has no
\* signatureData, or with one that has.
TransportOutcomes ==
  { [kind |-> "error", data |-> <<>>, err |-> e] : e \in TransportErrors }
    \cup { [kind |-> "nosig", data |-> <<>>, err |-> Error("")] }
    \cup { [kind |-> "data", data |-> d, err |-> Error("")] : d \in DecodedData }

\* Buffer.concat([xrpMagic, undefined]) throws inside sendAPDU's executor.
ConcatTypeError == Error("TypeError")

Delivered(frame) == [ok |-> TRUE, data |-> frame, err |-> Error("")]

Failed(err) == [ok |-> FALSE, data |-> <<>>, err |-> err]

\* Faulty variant of sendAPDU_index: decoded data of any length is delivered.
sendAPDU_index_AnyLength(o) ==
  IF o.kind = "error" THEN Failed(o.err)
  ELSE IF o.kind = "nosig" THEN Failed(Error("Failed to send an APDU."))
  ELSE Delivered(o.data)

\* sendAPDU's handling of the transport's answer (the .then/.catch of sign).
sendAPDU_index(o) ==
  IF o.kind = "error" THEN Failed(o.err)
  ELSE IF o.kind = "nosig" THEN Failed(Error("Failed to send an APDU."))
  ELSE IF Len(o.data) < 2 THEN Failed(Error("Invalid response APDU."))
  ELSE Delivered(o.data)

\* Faulty variant of sendAPDU_part000: a response without signatureData is
\* reported as a malformed frame.
sendAPDU_part000_NoSigMalformed(o) ==
  IF o.kind = "error" THEN Failed(o.err)
  ELSE IF o.kind = "nosig" THEN Failed(Error("Invalid response APDU."))
  ELSE IF Len(o.data) < 5 + 2 THEN Failed(Error("Invalid response APDU."))
  ELSE IF \/ o.data[1] # 1 \/ o.data[2] # 0 \/ o.data[3] # 0
          \/ o.data[4] # 0 \/ o.data[5] # 0
       THEN Failed(Error("Invalid response APDU."))
  ELSE Delivered(slice(o.data, 5, Len(o.data)))

sendAPDU_part000(o) ==
  IF o.kind = "error" THEN Failed(o.err)
  ELSE IF o.kind = "nosig" THEN Failed(Error("Failed to send an APDU."))
  ELSE IF Len(o.data) < 5 + 2 THEN Failed(Error("Invalid response APDU."))
  ELSE IF \/ o.data[1] # 1 \/ o.data[2] # 0 \/ o.data[3] # 0
          \/ o.data[4] # 0 \/ o.data[5] # 0
       THEN Failed(Error("Invalid response APDU."))
  ELSE Delivered(slice(o.data, 5, Len(o.data)))

sendAPDU_then(v, o) ==
  IF v = "index" THEN sendAPDU_index(o) ELSE sendAPDU_part000(o)

(***************************************************************************)
(* The promise an operation returns, and the request half of sendAPDU.     *)
(***************************************************************************)
\* No XRPInfo object yet.
NoInfo == [version |-> <<>>, walletInitialized |-> FALSE, pinVerified |-> FALSE]

NoCall ==
  [ op |-> "none", timeout |-> 0, rawData |-> <<>>, pin |-> <<>>,
    apdus |-> <<>>, inflight |-> <<>>, sent |-> <<>>, got |-> <<>>,
    state |-> "pending", value |-> <<>>, err |-> Error(""),
    triesLeft |-> <<>>, length |-> 0, secretType |-> "", secret |-> <<>>,
    info |-> NoInfo ]

\* A promise settles once: later resolve/reject calls change nothing.
resolve(cr, value) ==
  IF cr.state = "pending"
  THEN [cr EXCEPT !.state = "resolved", !.value = value]
  ELSE cr

reject(cr, err) ==
  IF cr.state = "pending"
  THEN [cr EXCEPT !.state = "rejected", !.err = err]
  ELSE cr

\* sendAPDU(apdu, timeout): hands the frame to sign(); `step` names the
\* continuation attached with .then.
sendAPDU(cr, apdu, step) ==
  [cr EXCEPT !.sent = Append(@, [apdu |-> apdu, step |-> step]),
             !.inflight = Append(@, [apdu |-> apdu, step |-> step])]

\* The answer to request i has arrived: the request is no longer outstanding
\* and the transport's answer and what sendAPDU made of it are noted.
answered(cr, i, o, r) ==
  [cr EXCEPT !.inflight = SubSeq(@, 1, i - 1) \o SubSeq(@, i + 1, Len(@)),
             !.got = Append(@, [req |-> cr.inflight[i], raw |-> o, res |-> r])]

(***************************************************************************)
(* signData: the chunk queue, the chunk steps and the finalize step.       *)
(***************************************************************************)
maxChunkSize(v) == IF v = "index" THEN 8 ELSE 128

chunkSize(v, rawData, offset) ==
  IF offset + maxChunkSize(v) > Len(rawData)
  THEN Len(rawData) - offset
  ELSE maxChunkSize(v)

\* Faulty variant of chunkP1: every chunk carries the start flag.
chunkP1_AlwaysStart(offset) == 0

\* Faulty variant of chunkP1: no chunk carries the start flag, as if a
\* transfer were already under way.
chunkP1_NeverStart(offset) == 1

\* apdu[2] = (offset === 0 ? 0x00 : 0x01)
chunkP1(offset) == IF offset = 0 THEN 0 ELSE 1

\* Faulty variant of chunkP2: the start/continue flag is put in P2.
chunkP2_Flag(offset) == IF offset = 0 THEN 0 ELSE 1

\* apdu[3] = 0x00
chunkP2(offset) == 0

\* Faulty variant of chunkApdu: the length byte is the maximum chunk size
\* also on a shorter last chunk.
chunkApdu_FullLength(v, rawData, offset) ==
  LET n == chunkSize(v, rawData, offset)
  IN  <<128, 242, chunkP1(offset), chunkP2(offset), maxChunkSize(v) % 256>>
        \o slice(rawData, offset, offset + n)

\* One pass of the while loop's body: the frame built at `offset`.
chunkApdu(v, rawData, offset) ==
  LET n == chunkSize(v, rawData, offset)
  IN  <<128, 242, chunkP1(offset), chunkP2(offset), n % 256>>
        \o slice(rawData, offset, offset + n)

\* while (offset !== rawData.length) { ...; apdus.push(apdu); offset += chunkSize }
RECURSIVE buildApdus(_, _, _, _)
buildApdus(v, rawData, offset, apdus) ==
  IF offset = Len(rawData)
  THEN apdus
  ELSE buildApdus(v, rawData, offset + chunkSize(v, rawData, offset),
                  Append(apdus, chunkApdu(v, rawData, offset)))

\* Buffer.from('80f20200', 'hex')
finalizeApdu == <<128, 242, 2, 0>>

\* Faulty variant of localCallback: the next chunk is sent without waiting for
\* the answer to the one just sent.
localCallback_NoWait(cr) ==
  IF cr.apdus = <<>>
  THEN reject(cr, ConcatTypeError)
  ELSE LET s == sendAPDU([cr EXCEPT !.apdus = Tail(@)], Head(cr.apdus), "chunk")
       IN  IF s.apdus = <<>>
           THEN s
           ELSE sendAPDU([s EXCEPT !.apdus = Tail(@)], Head(s.apdus), "chunk")

\* Faulty variant of localCallback: the frame is taken from the end of the
\* queue (pop for shift).
localCallback_LastFirst(cr) ==
  IF cr.apdus = <<>>
  THEN reject(cr, ConcatTypeError)
  ELSE sendAPDU([cr EXCEPT !.apdus = SubSeq(@, 1, Len(@) - 1)],
                cr.apdus[Len(cr.apdus)], "chunk")

\* Faulty variant of localCallback: the frame at the head of the queue is sent
\* but not removed (apdus[0] for apdus.shift()), so it is sent again.
localCallback_Resend(cr) ==
  IF cr.apdus = <<>>
  THEN reject(cr, ConcatTypeError)
  ELSE sendAPDU(cr, Head(cr.apdus), "chunk")

\* localCallback: sendAPDU(apdus.shift(), timeout).then(...). On an empty
\* queue shift() yields undefined, Buffer.concat throws in sendAPDU's
\* executor, the promise sendAPDU returns is rejected with the TypeError and
\* the .catch passes it to reject; sign() is never called.
localCallback(cr) ==
  IF cr.apdus = <<>>
  THEN reject(cr, ConcatTypeError)
  ELSE sendAPDU([cr EXCEPT !.apdus = Tail(@)], Head(cr.apdus), "chunk")

\* Faulty variant of chunkStatus: the length check is missing and the status
\* is read from the end of the response.
chunkStatus_NoLengthCheck(response) ==
  IF byteFromEnd(response, 2) # 144 \/ byteFromEnd(response, 1) # 0
  THEN IF byteFromEnd(response, 2) = 109 /\ byteFromEnd(response, 1) = 0
       THEN "Wallet not initialized."
       ELSE IF byteFromEnd(response, 2) = 105 /\ byteFromEnd(response, 1) = 130
            THEN "PIN-code not verified."
            ELSE "Invalid APDU response."
  ELSE "Success"

\* The classification of a chunk response: "Success" or the error message.
chunkStatus(response) ==
  IF Len(response) # 2 THEN "Invalid APDU response."
  ELSE IF response[1] # 144 \/ response[2] # 0
       THEN IF response[1] = 109 /\ response[2] = 0
            THEN "Wallet not initialized."
            ELSE IF response[1] = 105 /\ response[2] = 130
                 THEN "PIN-code not verified."
                 ELSE "Invalid APDU response."
  ELSE "Success"

\* The classification of the finalize response.
finalizeStatus_index(response) ==
  IF byteFromEnd(response, 2) # 144 \/ byteFromEnd(response, 1) # 0
  THEN "Invalid APDU response."
  ELSE "Success"

finalizeStatus_part000(response) ==
  IF byteFromEnd(response, 2) # 144 \/ byteFromEnd(response, 1) # 0
  THEN IF byteFromEnd(response, 2) = 100 \/ byteFromEnd(response, 1) = 1
       THEN "Transaction signing confirmation time expired."
       ELSE "Invalid APDU response."
  ELSE "Success"

finalizeStatus(v, response) ==
  IF v = "index"
  THEN finalizeStatus_index(response)
  ELSE finalizeStatus_part000(response)

\* Faulty variant of signature: the status bytes are not cut off.
signature_NoSlice(response) == response

\* response.slice(0, response.length - 2)
signature(response) == slice(response, 0, Len(response) - 2)

\* Faulty variant of afterChunk: after the last chunk nothing is sent.
afterChunk_NoFinalize(cr) ==
  IF Len(cr.apdus) = 0
  THEN cr
  ELSE localCallback(cr)

\* The then-handler of a chunk's sendAPDU, after the status checks passed.
afterChunk(cr) ==
  IF Len(cr.apdus) = 0
  THEN sendAPDU(cr, finalizeApdu, "finalize")
  ELSE localCallback(cr)

\* Faulty variant of timeoutTooShort: 60 seconds are refused as well.
timeoutTooShort_Inclusive(v, timeout) == v = "part000" /\ timeout <= MinTimeout

\* if (timeout < 60), in part_000 only.
timeoutTooShort(v, timeout) == v = "part000" /\ timeout < MinTimeout

\* The caller invokes signData(timeout, dataToSign); the executor runs to the
\* first sendAPDU.
signData(c, timeout, dataToSign) ==
  /\ calls[c].op = "none"
  /\ LET cr == [NoCall EXCEPT !.op = "signData", !.timeout = timeout,
                              !.rawData = dataToSign]
     IN calls' = [calls EXCEPT ![c] =
          IF timeoutTooShort(variant, timeout)
          THEN reject(cr, Error("Timeout should be at least 60 seconds."))
          ELSE localCallback(
                 [cr EXCEPT !.apdus = buildApdus(variant, dataToSign, 0, <<>>)])]
  /\ UNCHANGED <<variant, codec>>

\* The transport answers an outstanding chunk frame.
signData_chunk(c, i, o) ==
  /\ i \in 1..Len(calls[c].inflight)
  /\ calls[c].inflight[i].step = "chunk"
  /\ LET r  == sendAPDU_then(variant, o)
         cr == answered(calls[c], i, o, r)
     IN calls' = [calls EXCEPT ![c] =
          IF ~r.ok THEN reject(cr, r.err)
          ELSE IF chunkStatus(r.data) # "Success"
               THEN reject(cr, Error(chunkStatus(r.data)))
               ELSE afterChunk(cr)]
  /\ UNCHANGED <<variant, codec>>

\* The transport answers the outstanding finalize frame.
signData_finalize(c, i, o) ==
  /\ i \in 1..Len(calls[c].inflight)
  /\ calls[c].inflight[i].step = "finalize"
  /\ LET r  == sendAPDU_then(variant, o)
         cr == answered(calls[c], i, o, r)
     IN calls' = [calls EXCEPT ![c] =
          IF ~r.ok THEN reject(cr, r.err)
          ELSE IF finalizeStatus(variant, r.data) # "Success"
               THEN reject(cr, Error(finalizeStatus(variant, r.data)))
               ELSE resolve(cr, signature(r.data))]
  /\ UNCHANGED <<variant, codec>>

(***************************************************************************)
(* verifyPin and its tries-left follow-up getPinTriesLeft.                 *)
(***************************************************************************)
\* Faulty variant of verifyPinApdu: the length byte is left out.
verifyPinApdu_NoLength(pin) == <<128, 34, 0, 0>> \o pin

verifyPinApdu(pin) == <<128, 34, 0, 0, Len(pin) % 256>> \o pin

\* Buffer.from('80228000', 'hex')
getPinTriesLeftApdu == <<128, 34, 128, 0>>

\* The classification of the verify response; "TriesLeft" stands for the
\* branch that calls getPinTriesLeft.
\* Faulty variant of verifyPinStatus: the status is read from the end of the
\* response and the length is not tested.
verifyPinStatus_StatusFirst(response) ==
  IF byteFromEnd(response, 2) # 144 \/ byteFromEnd(response, 1) # 0
  THEN IF byteFromEnd(response, 2) = 109 /\ byteFromEnd(response, 1) = 0
       THEN "Wallet not initialized."
       ELSE IF byteFromEnd(response, 2) = 105 /\ byteFromEnd(response, 1) = 130
            THEN "TriesLeft"
            ELSE IF byteFromEnd(response, 2) = 103 /\ byteFromEnd(response, 1) = 0
                 THEN "Unsupported PIN-code length."
                 ELSE IF byteFromEnd(response, 2) = 105 /\ byteFromEnd(response, 1) = 131
                      THEN "PIN-code blocked."
                      ELSE "Invalid APDU response."
  ELSE "Success"

verifyPinStatus(response) ==
  IF Len(response) # 2 THEN "Invalid APDU response."
  ELSE IF response[1] # 144 \/ response[2] # 0
       THEN IF response[1] = 109 /\ response[2] = 0
            THEN "Wallet not initialized."
            ELSE IF response[1] = 105 /\ response[2] = 130
                 THEN "TriesLeft"
                 ELSE IF response[1] = 103 /\ response[2] = 0
                      THEN "Unsupported PIN-code length."
                      ELSE IF response[1] = 105 /\ response[2] = 131
                           THEN "PIN-code blocked."
                           ELSE "Invalid APDU response."
  ELSE "Success"

\* Faulty variant of getPinTriesLeftStatus: the wallet-not-initialized status
\* is not told apart from the other statuses.
getPinTriesLeftStatus_No6D00(response) ==
  IF Len(response) # 2 THEN "Invalid APDU response."
  ELSE IF response[1] # 99 THEN "Invalid APDU response."
  ELSE "Success"

\* The classification of the tries-left response: "Success" or the message.
getPinTriesLeftStatus(response) ==
  IF Len(response) # 2 THEN "Invalid APDU response."
  ELSE IF response[1] # 99
       THEN IF response[1] = 109 /\ response[2] = 0
            THEN "Wallet not initialized."
            ELSE "Invalid APDU response."
  ELSE "Success"

\* Faulty variant of triesLeftValue: 0xC0 is not subtracted.
triesLeftValue_Raw(response) == response[2]

\* resolve(response[1] - 0xC0)
triesLeftValue(response) == response[2] - 192

\* new Error('Invalid PIN-code. ' + triesLeft.toString() + ' tries left.')
InvalidPinRetry(triesLeft) ==
  [msg |-> "Invalid PIN-code. n tries left.", n |-> triesLeft]

verifyPin(c, timeout, pin) ==
  /\ calls[c].op = "none"
  /\ LET cr == [NoCall EXCEPT !.op = "verifyPin", !.timeout = timeout,
                              !.pin = pin]
     IN calls' = [calls EXCEPT ![c] =
          IF Len(pin) < 4 \/ Len(pin) > 32
          THEN reject(cr, Error("Invalid pin length."))
          ELSE sendAPDU(cr, verifyPinApdu(pin), "verify")]
  /\ UNCHANGED <<variant, codec>>

\* The transport answers the verify frame.
verifyPin_verify(c, i, o) ==
  /\ i \in 1..Len(calls[c].inflight)
  /\ calls[c].inflight[i].step = "verify"
  /\ LET r  == sendAPDU_then(variant, o)
         cr == answered(calls[c], i, o, r)
     IN calls' = [calls EXCEPT ![c] =
          IF ~r.ok THEN reject(cr, r.err)
          ELSE IF verifyPinStatus(r.data) = "Success" THEN resolve(cr, <<>>)
          ELSE IF verifyPinStatus(r.data) = "TriesLeft"
               THEN sendAPDU(cr, getPinTriesLeftApdu, "triesLeft")
               ELSE reject(cr, Error(verifyPinStatus(r.data)))]
  /\ UNCHANGED <<variant, codec>>

\* The transport answers the tries-left query: getPinTriesLeft settles and
\* verifyPin's continuation rejects with what it yields.
getPinTriesLeft_then(c, i, o) ==
  /\ i \in 1..Len(calls[c].inflight)
  /\ calls[c].inflight[i].step = "triesLeft"
  /\ LET r  == sendAPDU_then(variant, o)
         cr == answered(calls[c], i, o, r)
     IN calls' = [calls EXCEPT ![c] =
          IF ~r.ok THEN reject(cr, r.err)
          ELSE IF getPinTriesLeftStatus(r.data) # "Success"
               THEN reject(cr, Error(getPinTriesLeftStatus(r.data)))
               ELSE reject([cr EXCEPT !.triesLeft = <<triesLeftValue(r.data)>>],
                           InvalidPinRetry(triesLeftValue(r.data)))]
  /\ UNCHANGED <<variant, codec>>

(***************************************************************************)
(* getInfo.                                                                *)
(***************************************************************************)
\* Buffer.from('80C40000', 'hex')
getInfoApdu == <<128, 196, 0, 0>>

getInfoStatus(response) ==
  IF byteFromEnd(response, 2) # 144 \/ byteFromEnd(response, 1) # 0
  THEN "Invalid APDU response."
  ELSE IF Len(response) # 10
       THEN "Invalid APDU response."
       ELSE "Success"

\* Number.prototype.toString() of a byte: its decimal digits, as characters.
RECURSIVE toString(_)
toString(n) ==
  IF n < 10
  THEN << <<"0", "1", "2", "3", "4", "5", "6", "7", "8", "9">>[n + 1] >>
  ELSE toString(n \div 10) \o toString(n % 10)

\* Faulty variant of XRPInfo: the two flag bits are exchanged.
XRPInfo_BitsSwapped(response) ==
  [ version |-> toString(response[1]) \o <<".">> \o toString(response[2]),
    walletInitialized |-> ((response[3] \div 2) % 2) = 1,
    pinVerified |-> (response[3] % 2) = 1 ]

\* The XRPInfo object built from a 10-byte response.
XRPInfo(response) ==
  [ version |-> toString(response[1]) \o <<".">> \o toString(response[2]),
    walletInitialized |-> (response[3] % 2) = 1,
    pinVerified |-> ((response[3] \div 2) % 2) = 1 ]

getInfo(c, timeout) ==
  /\ calls[c].op = "none"
  /\ calls' = [calls EXCEPT ![c] =
       sendAPDU([NoCall EXCEPT !.op = "getInfo", !.timeout = timeout],
                getInfoApdu, "info")]
  /\ UNCHANGED <<variant, codec>>

getInfo_then(c, i, o) ==
  /\ i \in 1..Len(calls[c].inflight)
  /\ calls[c].inflight[i].step = "info"
  /\ LET r  == sendAPDU_then(variant, o)
         cr == answered(calls[c], i, o, r)
     IN calls' = [calls EXCEPT ![c] =
          IF ~r.ok THEN reject(cr, r.err)
          ELSE IF getInfoStatus(r.data) # "Success"
               THEN reject(cr, Error(getInfoStatus(r.data)))
               ELSE [resolve(cr, <<>>) EXCEPT !.info = XRPInfo(r.data)]]
  /\ UNCHANGED <<variant, codec>>

(***************************************************************************)
(* getRandom and getRandomID.                                              *)
(***************************************************************************)
\* Buffer.from('80C0000000', 'hex'); apdu[4] = length (stored as a byte).
getRandomApdu(length) == <<128, 192, 0, 0, length % 256>>

\* if ((length === 0) || (length > 128))
getRandomLengthOk(length) == ~(length = 0 \/ length > 128)

\* Faulty variant of getRandomStatus: the size of the response is not compared
\* with the length asked for.
getRandomStatus_NoLengthCheck(length, response) ==
  IF byteFromEnd(response, 2) # 144 \/ byteFromEnd(response, 1) # 0
  THEN "Invalid APDU response."
  ELSE "Success"

getRandomStatus(length, response) ==
  IF byteFromEnd(response, 2) # 144 \/ byteFromEnd(response, 1) # 0
  THEN "Invalid APDU response."
  ELSE IF Len(response) # length + 2
       THEN "Invalid APDU response."
       ELSE "Success"

\* response.slice(0, response.length - 2)
payloadOf(response) == slice(response, 0, Len(response) - 2)

getRandom(c, timeout, length) ==
  /\ calls[c].op = "none"
  /\ LET cr == [NoCall EXCEPT !.op = "getRandom", !.timeout = timeout,
                              !.length = length]
     IN calls' = [calls EXCEPT ![c] =
          IF ~getRandomLengthOk(length)
          THEN reject(cr, Error("Invalid length."))
          ELSE sendAPDU(cr, getRandomApdu(length), "random")]
  /\ UNCHANGED <<variant, codec>>

getRandom_then(c, i, o) ==
  /\ i \in 1..Len(calls[c].inflight)
  /\ calls[c].inflight[i].step = "random"
  /\ LET r  == sendAPDU_then(variant, o)
         cr == answered(calls[c], i, o, r)
     IN calls' = [calls EXCEPT ![c] =
          IF ~r.ok THEN reject(cr, r.err)
          ELSE IF getRandomStatus(cr.length, r.data) # "Success"
               THEN reject(cr, Error(getRandomStatus(cr.length, r.data)))
               ELSE resolve(cr, payloadOf(r.data))]
  /\ UNCHANGED <<variant, codec>>

\* Buffer.from('80E2000000', 'hex')
getRandomIDApdu == <<128, 226, 0, 0, 0>>

\* The status checks shared by getRandomID and getPublicKey, then the check
\* of the total length.
\* Faulty variant of keyedStatus: the length is tested before the status.
keyedStatus_LengthFirst(response, length) ==
  IF Len(response) # length
  THEN "Invalid APDU response."
  ELSE IF byteFromEnd(response, 2) # 144 \/ byteFromEnd(response, 1) # 0
       THEN IF byteFromEnd(response, 2) = 109 /\ byteFromEnd(response, 1) = 0
            THEN "Wallet not initialized."
            ELSE IF byteFromEnd(response, 2) = 105 /\ byteFromEnd(response, 1) = 130
                 THEN "PIN-code not verified."
                 ELSE "Invalid APDU response."
       ELSE "Success"

keyedStatus(response, length) ==
  IF byteFromEnd(response, 2) # 144 \/ byteFromEnd(response, 1) # 0
  THEN IF byteFromEnd(response, 2) = 109 /\ byteFromEnd(response, 1) = 0
       THEN "Wallet not initialized."
       ELSE IF byteFromEnd(response, 2) = 105 /\ byteFromEnd(response, 1) = 130
            THEN "PIN-code not verified."
            ELSE "Invalid APDU response."
  ELSE IF Len(response) # length
       THEN "Invalid APDU response."
       ELSE "Success"

getRandomIDStatus(response) == keyedStatus(response, 10)

\* getRandomID exists in src/unnamed/part_000 only.
getRandomID(c, timeout) ==
  /\ variant = "part000"
  /\ calls[c].op = "none"
  /\ calls' = [calls EXCEPT ![c] =
       sendAPDU([NoCall EXCEPT !.op = "getRandomID", !.timeout = timeout],
                getRandomIDApdu, "randomID")]
  /\ UNCHANGED <<variant, codec>>

getRandomID_then(c, i, o) ==
  /\ i \in 1..Len(calls[c].inflight)
  /\ calls[c].inflight[i].step = "randomID"
  /\ LET r  == sendAPDU_then(variant, o)
         cr == answered(calls[c], i, o, r)
     IN calls' = [calls EXCEPT ![c] =
          IF ~r.ok THEN reject(cr, r.err)
          ELSE IF getRandomIDStatus(r.data) # "Success"
               THEN reject(cr, Error(getRandomIDStatus(r.data)))
               ELSE resolve(cr, payloadOf(r.data))]
  /\ UNCHANGED <<variant, codec>>

(***************************************************************************)
(* initWallet and wipeoutWallet.                                           *)
(***************************************************************************)
\* The client-side checks: "Ok" or the message of the rejection. In
\* src/src/index.js the operation is initWallet(timeout, privateKey, pin) and
\* takes no secret type.
\* Faulty variant of initWalletCheck_index: a 33-byte PIN is let through.
initWalletCheck_index_Pin33(secret, pin) ==
  IF Len(secret) # 32 THEN "Invalid private key length."
  ELSE IF Len(pin) < 4 \/ Len(pin) > 33 THEN "Invalid pin length."
  ELSE "Ok"

initWalletCheck_index(secret, pin) ==
  IF Len(secret) # 32 THEN "Invalid private key length."
  ELSE IF Len(pin) < 4 \/ Len(pin) > 32 THEN "Invalid pin length."
  ELSE "Ok"

\* Faulty variant of initWalletCheck_part000: an 'xrpSecret' of any size is
\* let through.
initWalletCheck_part000_AnyXrpSecret(secretType, secret, pin) ==
  IF secretType = "privateKey" /\ Len(secret) # 32
  THEN "Invalid secret length."
  ELSE IF secretType # "privateKey" /\ secretType # "xrpSecret"
       THEN "Invalid secret type."
       ELSE IF Len(pin) < 4 \/ Len(pin) > 32
            THEN "Invalid pin length."
            ELSE "Ok"

initWalletCheck_part000(secretType, secret, pin) ==
  IF secretType = "privateKey" /\ Len(secret) # 32
  THEN "Invalid secret length."
  ELSE IF secretType = "xrpSecret" /\ Len(secret) # 16
       THEN "Invalid secret length."
       ELSE IF secretType # "privateKey" /\ secretType # "xrpSecret"
            THEN "Invalid secret type."
            ELSE IF Len(pin) < 4 \/ Len(pin) > 32
                 THEN "Invalid pin length."
                 ELSE "Ok"

initWalletCheck(v, secretType, secret, pin) ==
  IF v = "index"
  THEN initWalletCheck_index(secret, pin)
  ELSE initWalletCheck_part000(secretType, secret, pin)

\* apdu[3]
initWalletP2(v, secretType) ==
  IF v = "index" THEN 0
  ELSE IF secretType = "privateKey" THEN 0 ELSE 1

\* Faulty variant of initWalletApdu: the secret is copied before the PIN.
initWalletApdu_SecretFirst(v, secretType, secret, pin) ==
  << 128, 32, 0, initWalletP2(v, secretType),
     (1 + Len(pin) + Len(secret)) % 256, Len(pin) % 256 >> \o secret \o pin

initWalletApdu(v, secretType, secret, pin) ==
  << 128, 32, 0, initWalletP2(v, secretType),
     (1 + Len(pin) + Len(secret)) % 256, Len(pin) % 256 >> \o pin \o secret

\* Faulty variant of initWalletStatus: 6D 00 is reported as it is by the other
\* operations.
initWalletStatus_NotInitialized(response) ==
  IF Len(response) # 2 THEN "Invalid APDU response."
  ELSE IF response[1] # 144 \/ response[2] # 0
       THEN IF response[1] = 109 /\ response[2] = 0
            THEN "Wallet not initialized."
            ELSE "Invalid APDU response."
  ELSE "Success"

initWalletStatus(response) ==
  IF Len(response) # 2 THEN "Invalid APDU response."
  ELSE IF response[1] # 144 \/ response[2] # 0
       THEN IF response[1] = 109 /\ response[2] = 0
            THEN "Wallet already initialized."
            ELSE "Invalid APDU response."
  ELSE "Success"

initWallet(c, timeout, secretType, secret, pin) ==
  /\ calls[c].op = "none"
  /\ LET cr == [NoCall EXCEPT !.op = "initWallet", !.timeout = timeout,
                              !.secretType = secretType, !.secret = secret,
                              !.pin = pin]
     IN calls' = [calls EXCEPT ![c] =
          IF initWalletCheck(variant, secretType, secret, pin) # "Ok"
          THEN reject(cr, Error(initWalletCheck(variant, secretType, secret, pin)))
          ELSE sendAPDU(cr, initWalletApdu(variant, secretType, secret, pin),
                        "init")]
  /\ UNCHANGED <<variant, codec>>

initWallet_then(c, i, o) ==
  /\ i \in 1..Len(calls[c].inflight)
  /\ calls[c].inflight[i].step = "init"
  /\ LET r  == sendAPDU_then(variant, o)
         cr == answered(calls[c], i, o, r)
     IN calls' = [calls EXCEPT ![c] =
          IF ~r.ok THEN reject(cr, r.err)
          ELSE IF initWalletStatus(r.data) # "Success"
               THEN reject(cr, Error(initWalletStatus(r.data)))
               ELSE resolve(cr, <<>>)]
  /\ UNCHANGED <<variant, codec>>

\* Buffer.from('80F0000000', 'hex')
wipeoutWalletApdu == <<128, 240, 0, 0, 0>>

\* Faulty variant of wipeoutWalletStatus: the status bytes are not examined.
wipeoutWalletStatus_AnyStatus(response) ==
  IF Len(response) # 2 THEN "Invalid APDU response." ELSE "Success"

wipeoutWalletStatus(response) ==
  IF Len(response) # 2 THEN "Invalid APDU response."
  ELSE IF response[1] # 144 \/ response[2] # 0
       THEN IF response[1] = 109 /\ response[2] = 0
            THEN "Wallet not initialized."
            ELSE "Invalid APDU response."
  ELSE "Success"

wipeoutWallet(c, timeout) ==
  /\ calls[c].op = "none"
  /\ calls' = [calls EXCEPT ![c] =
       sendAPDU([NoCall EXCEPT !.op = "wipeoutWallet", !.timeout = timeout],
                wipeoutWalletApdu, "wipeout")]
  /\ UNCHANGED <<variant, codec>>

wipeoutWallet_then(c, i, o) ==
  /\ i \in 1..Len(calls[c].inflight)
  /\ calls[c].inflight[i].step = "wipeout"
  /\ LET r  == sendAPDU_then(variant, o)
         cr == answered(calls[c], i, o, r)
     IN calls' = [calls EXCEPT ![c] =
          IF ~r.ok THEN reject(cr, r.err)
          ELSE IF wipeoutWalletStatus(r.data) # "Success"
               THEN reject(cr, Error(wipeoutWalletStatus(r.data)))
               ELSE resolve(cr, <<>>)]
  /\ UNCHANGED <<variant, codec>>

(***************************************************************************)
(* getPublicKey.                                                           *)
(***************************************************************************)
\* Buffer.from('80400000', 'hex')
getPublicKeyApdu == <<128, 64, 0, 0>>

\* if (response.length !== 67) in index.js, !== 35 in part_000
publicKeyResponseLength(v) == IF v = "index" THEN 67 ELSE 35

getPublicKeyStatus(v, response) ==
  keyedStatus(response, publicKeyResponseLength(v))

getPublicKey(c, timeout) ==
  /\ calls[c].op = "none"
  /\ calls' = [calls EXCEPT ![c] =
       sendAPDU([NoCall EXCEPT !.op = "getPublicKey", !.timeout = timeout],
                getPublicKeyApdu, "publicKey")]
  /\ UNCHANGED <<variant, codec>>

getPublicKey_then(c, i, o) ==
  /\ i \in 1..Len(calls[c].inflight)
  /\ calls[c].inflight[i].step = "publicKey"
  /\ LET r  == sendAPDU_then(variant, o)
         cr == answered(calls[c], i, o, r)
     IN calls' = [calls EXCEPT ![c] =
          IF ~r.ok THEN reject(cr, r.err)
          ELSE IF getPublicKeyStatus(variant, r.data) # "Success"
               THEN reject(cr, Error(getPublicKeyStatus(variant, r.data)))
               ELSE resolve(cr, payloadOf(r.data))]
  /\ UNCHANGED <<variant, codec>>

(***************************************************************************)
(* webSafe64 and normal64: the base64 dialect of the U2F fields.  Text is  *)
(* a sequence of one-character strings.                                    *)
(***************************************************************************)
Base64Alphabet ==
  << "A", "B", "C", "D", "E", "F", "G", "H", "I", "J", "K", "L", "M",
     "N", "O", "P", "Q", "R", "S", "T", "U", "V", "W", "X", "Y", "Z",
     "a", "b", "c", "d", "e", "f", "g", "h", "i", "j", "k", "l", "m",
     "n", "o", "p", "q", "r", "s", "t", "u", "v", "w", "x", "y", "z",
     "0", "1", "2", "3", "4", "5", "6", "7", "8", "9", "+", "/" >>

\* buf.toString('base64'): 3 bytes make 4 characters; a last group of 1 or 2
\* bytes makes 2 or 3 characters and is padded with '=' to 4.
RECURSIVE toBase64(_)
toBase64(buf) ==
  IF Len(buf) = 0 THEN <<>>
  ELSE IF Len(buf) = 1
       THEN << Base64Alphabet[(buf[1] \div 4) + 1],
               Base64Alphabet[(buf[1] % 4) * 16 + 1], "=", "=" >>
  ELSE IF Len(buf) = 2
       THEN << Base64Alphabet[(buf[1] \div 4) + 1],
               Base64Alphabet[(buf[1] % 4) * 16 + (buf[2] \div 16) + 1],
               Base64Alphabet[(buf[2] % 16) * 4 + 1], "=" >>
  ELSE << Base64Alphabet[(buf[1] \div 4) + 1],
          Base64Alphabet[(buf[1] % 4) * 16 + (buf[2] \div 16) + 1],
          Base64Alphabet[(buf[2] % 16) * 4 + (buf[3] \div 64) + 1],
          Base64Alphabet[(buf[3] % 64) + 1] >>
         \o toBase64(SubSeq(buf, 4, Len(buf)))

\* .replace(/=+$/, '')
RECURSIVE stripPadding(_)
stripPadding(text) ==
  IF text # <<>> /\ text[Len(text)] = "="
  THEN stripPadding(SubSeq(text, 1, Len(text) - 1))
  ELSE text

\* base64.replace(/\+/g, '-').replace(/\//g, '_').replace(/=+$/, '')
webSafe64(base64) ==
  stripPadding([i \in 1..Len(base64) |->
                  IF base64[i] = "+" THEN "-"
                  ELSE IF base64[i] = "/" THEN "_" ELSE base64[i]])

\* '=='.substring(0, n)
padding(n) == SubSeq(<<"=", "=">>, 1, IF n > 2 THEN 2 ELSE n)

\* Faulty variant of normal64: the padding is taken from the length itself.
normal64_PadByLength(base64) ==
  [i \in 1..Len(base64) |->
     IF base64[i] = "-" THEN "+"
     ELSE IF base64[i] = "_" THEN "/" ELSE base64[i]]
    \o padding(Len(base64) % 4)

\* base64.replace(/\-/g, '+').replace(/_/g, '/')
\*   + '=='.substring(0, (3 * base64.length) % 4)
normal64(base64) ==
  [i \in 1..Len(base64) |->
     IF base64[i] = "-" THEN "+"
     ELSE IF base64[i] = "_" THEN "/" ELSE base64[i]]
    \o padding((3 * Len(base64)) % 4)

\* The text being converted: the standard base64 text b, webSafe64 of it and
\* normal64 of that.
NoCodec == [stage |-> "none", b |-> <<>>, web |-> <<>>, back |-> <<>>]

\* Buffer.from('8877665544332211', 'hex')
xrpMagic == <<136, 119, 102, 85, 68, 51, 34, 17>>

\* Buffer.from('00...00', 'hex'), 32 bytes
challenge == [i \in 1..32 |-> 0]

(***************************************************************************)
(* Inputs and the specification.                                           *)
(***************************************************************************)
\* Byte i of the data to sign: distinct values at neighbouring offsets, so a
\* chunk cut at the wrong place shows.
PayloadByte(i) == (17 * i + 5) % 256

Payload(n) == [i \in 1..n |-> PayloadByte(i - 1)]

\* Lengths at and next to the multiples of the chunk size.
PayloadLengths(v) ==
  { k * maxChunkSize(v) + d :
      k \in 0..(MaxChunks - 1), d \in {0, 1, maxChunkSize(v) - 1} }
    \cup { MaxChunks * maxChunkSize(v) }

\* PIN bytes: the digits '1'..'9' (49..57) repeating.
Pin(n) == [i \in 1..n |-> 49 + ((i - 1) % 9)]

\* Lengths the caller asks getRandom for, around the limits 1 and 128.
RandomLengths == {-1, 0, 1, 2, 128, 129}

\* The secret types and secret lengths the caller passes to initWallet.
SecretTypes(v) ==
  IF v = "index" THEN {"privateKey"} ELSE {"privateKey", "xrpSecret", "seed"}

SecretLengths == {16, 32, 33}

Secret(n) == [i \in 1..n |-> 160 + (i % 16)]

\* The byte sequences whose base64 text is converted: every sequence of up to
\* MaxB64Len bytes over bytes that yield 'A', '+', '/' and other characters,
\* the challenge, and the key handles of two frames.
B64Bytes == {0, 251, 255}

B64Inputs ==
  UNION { [1..n -> B64Bytes] : n \in 0..MaxB64Len }
    \cup { challenge, xrpMagic \o getInfoApdu, xrpMagic \o getRandomIDApdu }

CallIds == {"c1"}

Init ==
  /\ variant \in Variants
  /\ calls = [c \in CallIds |-> NoCall]
  /\ codec = NoCodec

\* The caller starts an operation.
CallSignData ==
  \E c \in DOMAIN calls, t \in Timeouts, n \in PayloadLengths(variant) :
    signData(c, t, Payload(n))

CallVerifyPin ==
  \E c \in DOMAIN calls, t \in Timeouts, n \in PinLengths :
    verifyPin(c, t, Pin(n))

CallGetInfo == \E c \in DOMAIN calls, t \in Timeouts : getInfo(c, t)

CallGetRandom ==
  \E c \in DOMAIN calls, t \in Timeouts, n \in RandomLengths :
    getRandom(c, t, n)

CallGetRandomID == \E c \in DOMAIN calls, t \in Timeouts : getRandomID(c, t)

CallInitWallet ==
  \E c \in DOMAIN calls, t \in Timeouts, st \in SecretTypes(variant),
     s \in SecretLengths, p \in PinLengths :
    initWallet(c, t, st, Secret(s), Pin(p))

CallWipeoutWallet ==
  \E c \in DOMAIN calls, t \in Timeouts : wipeoutWallet(c, t)

CallGetPublicKey == \E c \in DOMAIN calls, t \in Timeouts : getPublicKey(c, t)

\* The transport answers one outstanding request, with any outcome.
ChunkAnswered ==
  \E c \in DOMAIN calls, o \in TransportOutcomes :
    \E i \in 1..Len(calls[c].inflight) : signData_chunk(c, i, o)

FinalizeAnswered ==
  \E c \in DOMAIN calls, o \in TransportOutcomes :
    \E i \in 1..Len(calls[c].inflight) : signData_finalize(c, i, o)

VerifyAnswered ==
  \E c \in DOMAIN calls, o \in TransportOutcomes :
    \E i \in 1..Len(calls[c].inflight) : verifyPin_verify(c, i, o)

TriesLeftAnswered ==
  \E c \in DOMAIN calls, o \in TransportOutcomes :
    \E i \in 1..Len(calls[c].inflight) : getPinTriesLeft_then(c, i, o)

InfoAnswered ==
  \E c \in DOMAIN calls, o \in TransportOutcomes :
    \E i \in 1..Len(calls[c].inflight) : getInfo_then(c, i, o)

RandomAnswered ==
  \E c \in DOMAIN calls, o \in TransportOutcomes :
    \E i \in 1..Len(calls[c].inflight) : getRandom_then(c, i, o)

RandomIDAnswered ==
  \E c \in DOMAIN calls, o \in TransportOutcomes :
    \E i \in 1..Len(calls[c].inflight) : getRandomID_then(c, i, o)

InitAnswered ==
  \E c \in DOMAIN calls, o \in TransportOutcomes :
    \E i \in 1..Len(calls[c].inflight) : initWallet_then(c, i, o)

WipeoutAnswered ==
  \E c \in DOMAIN calls, o \in TransportOutcomes :
    \E i \in 1..Len(calls[c].inflight) : wipeoutWallet_then(c, i, o)

PublicKeyAnswered ==
  \E c \in DOMAIN calls, o \in TransportOutcomes :
    \E i \in 1..Len(calls[c].inflight) : getPublicKey_then(c, i, o)

Next ==
  \/ CallGetInfo
  \/ CallGetRandom
  \/ CallGetRandomID
  \/ CallInitWallet
  \/ CallWipeoutWallet
  \/ CallGetPublicKey
  \/ InfoAnswered
  \/ RandomAnswered
  \/ RandomIDAnswered
  \/ InitAnswered
  \/ WipeoutAnswered
  \/ PublicKeyAnswered
  \/ CallSignData
  \/ CallVerifyPin
  \/ ChunkAnswered
  \/ FinalizeAnswered
  \/ VerifyAnswered
  \/ TriesLeftAnswered

Spec == Init /\ [][Next]_vars


(***************************************************************************)
(* Properties.                                                             *)
(***************************************************************************)
SignCalls == { c \in DOMAIN calls : calls[c].op = "signData" }

\* The chunk size each variant is documented to use.
DocChunkSize == IF variant = "index" THEN 8 ELSE 128

\* ceil(L / C) for the payload of call c.
DocChunks(c) == (Len(calls[c].rawData) + DocChunkSize - 1) \div DocChunkSize

\* The answer noted in a history entry is the 2-byte success response 90 00.
IsSuccess2(g) == g.res.ok /\ g.res.data = <<144, 0>>

\* The answer noted in a history entry ends with the status 90 00.
EndsWithSuccess(g) ==
  /\ g.res.ok
  /\ byteFromEnd(g.res.data, 2) = 144
  /\ byteFromEnd(g.res.data, 1) = 0

\* C1: in signData, when the round trip of a chunk frame ends in anything
\* other than the 2-byte response 90 00 (another status, another length, a
\* tunnel or transport failure), the call is rejected, that answer is the last
\* one it handles, and no frame is sent after the failed one: nothing is
\* outstanding and the frames sent are exactly the frames answered.
C1_ChunkFailureStops ==
  \A c \in SignCalls :
    \A k \in 1..Len(calls[c].got) :
      (calls[c].got[k].req.step = "chunk" /\ ~IsSuccess2(calls[c].got[k]))
        => /\ calls[c].state = "rejected"
           /\ k = Len(calls[c].got)
           /\ Len(calls[c].sent) = k
           /\ calls[c].inflight = <<>>

\* A second chunk failed while chunks were still queued.
C1_Witness ==
  \E c \in SignCalls :
    /\ Len(calls[c].got) = 2
    /\ calls[c].got[2].req.step = "chunk"
    /\ ~IsSuccess2(calls[c].got[2])
    /\ calls[c].apdus # <<>>
    /\ calls[c].state = "rejected"

\* C2: within one signData call at most one request is outstanding, every
\* frame but the last sent has been answered with the 2-byte success response
\* 90 00 (answer k belongs to frame k), the frames leave in payload order
\* (frame k carries the payload bytes from offset (k-1)*C on), and the finalize
\* frame is sent only after all chunks, as the last frame.
C2_OneOutstandingInOrder ==
  \A c \in SignCalls :
    /\ Len(calls[c].inflight) <= 1
    /\ Len(calls[c].sent) = Len(calls[c].got) + Len(calls[c].inflight)
    /\ \A k \in 1..Len(calls[c].got) :
         /\ calls[c].got[k].req = calls[c].sent[k]
         /\ k < Len(calls[c].sent) => IsSuccess2(calls[c].got[k])
    /\ \A k \in 1..Len(calls[c].sent) :
         IF calls[c].sent[k].step = "chunk"
         THEN /\ k <= DocChunks(c)
              /\ slice(calls[c].sent[k].apdu, 5, Len(calls[c].sent[k].apdu))
                   = slice(calls[c].rawData, (k - 1) * DocChunkSize,
                           IF k * DocChunkSize < Len(calls[c].rawData)
                           THEN k * DocChunkSize ELSE Len(calls[c].rawData))
         ELSE /\ calls[c].sent[k].step = "finalize"
              /\ k = DocChunks(c) + 1
              /\ k = Len(calls[c].sent)

\* Three chunks were answered and the finalize frame is outstanding.
C2_Witness ==
  \E c \in SignCalls :
    /\ Len(calls[c].sent) = 4
    /\ Len(calls[c].inflight) = 1
    /\ calls[c].inflight[1].step = "finalize"

\* C3: signData resolves only if every chunk frame and then the finalize frame
\* were answered with success: all ceil(L/C) chunk answers are the 2-byte
\* response 90 00, the last answer is the finalize answer and ends with 90 00,
\* and the resolved value is that answer without its last 2 bytes.
C3_ResolvesOnlyAfterAllSuccess ==
  \A c \in SignCalls :
    calls[c].state = "resolved"
      => /\ Len(calls[c].got) = DocChunks(c) + 1
         /\ DocChunks(c) >= 1
         /\ \A k \in 1..DocChunks(c) :
              /\ calls[c].got[k].req.step = "chunk"
              /\ IsSuccess2(calls[c].got[k])
         /\ LET g == calls[c].got[Len(calls[c].got)]
            IN  /\ g.req.step = "finalize"
                /\ EndsWithSuccess(g)
                /\ calls[c].value
                     = SubSeq(g.res.data, 1, Len(g.res.data) - 2)

\* A two-chunk call resolved with a non-empty signature.
C3_Witness ==
  \E c \in SignCalls :
    /\ calls[c].state = "resolved"
    /\ Len(calls[c].got) = 3
    /\ calls[c].value = <<171, 205>>

\* The call got past signData's timeout check.
TimeoutAccepted(c) == variant = "part000" => calls[c].timeout >= MinTimeout

\* Every answer so far is a success: 90 00 alone for a chunk, a frame ending
\* with 90 00 for the finalize step.
AllAnswersSuccess(c) ==
  \A k \in 1..Len(calls[c].got) :
    IF calls[c].got[k].req.step = "chunk"
    THEN IsSuccess2(calls[c].got[k])
    ELSE EndsWithSuccess(calls[c].got[k])

\* C4 (as claimed): for every payload, the empty one included, when every
\* frame is answered with success, signData is never rejected, and once no
\* request is outstanding it has sent its N chunk frames, then one finalize
\* frame, and is resolved with the signature.
C4_SuccessPathAnyPayload ==
  \A c \in SignCalls :
    (TimeoutAccepted(c) /\ AllAnswersSuccess(c))
      => /\ calls[c].state # "rejected"
         /\ calls[c].inflight = <<>>
              => /\ calls[c].state = "resolved"
                 /\ Len(calls[c].sent) = DocChunks(c) + 1
                 /\ \A k \in 1..DocChunks(c) : calls[c].sent[k].step = "chunk"
                 /\ calls[c].sent[DocChunks(c) + 1].step = "finalize"

\* The chunk frames signData built: those already sent, then those queued.
ChunkFrames(c) ==
  LET s == SelectSeq(calls[c].sent, LAMBDA e : e.step = "chunk")
  IN  [k \in 1..Len(s) |-> s[k].apdu] \o calls[c].apdus

RECURSIVE ConcatPayloads(_)
ConcatPayloads(fs) ==
  IF fs = <<>>
  THEN <<>>
  ELSE SubSeq(Head(fs), 6, Len(Head(fs))) \o ConcatPayloads(Tail(fs))

\* C5: for a payload of L > 0 bytes signData builds ceil(L/C) chunk frames
\* (L/C when C divides L), C = 8 in index.js and 128 in part_000; every chunk
\* but the last carries C payload bytes, the last carries L - (ceil(L/C)-1)*C,
\* each length byte equals the number of payload bytes of its frame, and the
\* chunk payloads concatenated in order are the payload.
C5_Chunking ==
  \A c \in SignCalls :
    (Len(calls[c].rawData) > 0 /\ TimeoutAccepted(c))
      => LET fs == ChunkFrames(c)
             L  == Len(calls[c].rawData)
             n  == DocChunks(c)
         IN  /\ Len(fs) = n
             /\ L % DocChunkSize = 0 => n = L \div DocChunkSize
             /\ \A k \in 1..Len(fs) :
                  /\ Len(fs[k]) >= 5
                  /\ Len(fs[k]) - 5 = IF k < n THEN DocChunkSize
                                      ELSE L - (n - 1) * DocChunkSize
                  /\ fs[k][5] = Len(fs[k]) - 5
             /\ ConcatPayloads(fs) = calls[c].rawData

\* A payload of two full chunks and one byte has been cut into three frames.
C5_Witness ==
  \E c \in SignCalls :
    /\ Len(calls[c].rawData) = 2 * DocChunkSize + 1
    /\ Len(ChunkFrames(c)) = 3
    /\ Len(ChunkFrames(c)[3]) = 6

\* C6 (as claimed): the flag of the sign frames is in P2 (byte index 3): 00 on
\* the first chunk frame, 01 on every later chunk frame, 02 on the finalize
\* frame.
C6_FlagInP2 ==
  \A c \in SignCalls :
    \A k \in 1..Len(calls[c].sent) :
      calls[c].sent[k].apdu[4]
        = IF calls[c].sent[k].step = "finalize" THEN 2
          ELSE IF k = 1 THEN 0 ELSE 1

\* C6 (amended): the flag of the sign frames is in P1 (byte index 2) and P2
\* (byte index 3) is 00 on every sign frame: the first chunk frame has
\* P1 = 00, every later chunk frame P1 = 01, and the finalize frame, of which
\* there is at most one, P1 = 02.
C6_FlagInP1_P2Zero ==
  \A c \in SignCalls :
    /\ \A k \in 1..Len(calls[c].sent) :
         /\ calls[c].sent[k].apdu[4] = 0
         /\ calls[c].sent[k].apdu[3]
              = IF calls[c].sent[k].step = "finalize" THEN 2
                ELSE IF k = 1 THEN 0 ELSE 1
    /\ Cardinality({ k \in 1..Len(calls[c].sent) :
                       calls[c].sent[k].step = "finalize" }) <= 1

\* A first chunk, a later chunk and the finalize frame have been sent.
C6_Witness ==
  \E c \in SignCalls :
    /\ Len(calls[c].sent) = 3
    /\ calls[c].sent[2].step = "chunk"
    /\ calls[c].sent[3].step = "finalize"

\* The places in the frames sent by call c whose P1 is b.
FramesWithP1(c, b) ==
  { k \in 1..Len(calls[c].sent) : calls[c].sent[k].apdu[3] = b }

\* C7: every frame sent by signData starts with class 80 and instruction F2
\* and carries its flag in P1 (byte index 2): 00 on the first chunk frame
\* only, 01 on every later chunk frame, 02 on the finalize frame only; a call
\* that resolves has sent exactly one frame with P1 = 00 and exactly one with
\* P1 = 02, the latter last.
C7_ClassInsAndP1 ==
  \A c \in SignCalls :
    /\ \A k \in 1..Len(calls[c].sent) :
         LET f == calls[c].sent[k]
         IN  /\ f.apdu[1] = 128
             /\ f.apdu[2] = 242
             /\ f.apdu[3] \in {0, 1, 2}
             /\ f.apdu[3] = 0 <=> (f.step = "chunk" /\ k = 1)
             /\ f.apdu[3] = 1 <=> (f.step = "chunk" /\ k > 1)
             /\ f.apdu[3] = 2 <=> f.step = "finalize"
    /\ calls[c].state = "resolved"
         => /\ Cardinality(FramesWithP1(c, 0)) = 1
            /\ Cardinality(FramesWithP1(c, 2)) = 1
            /\ calls[c].sent[Len(calls[c].sent)].apdu[3] = 2

\* A call of three chunks has resolved.
C7_Witness ==
  \E c \in SignCalls :
    /\ calls[c].state = "resolved"
    /\ Len(calls[c].sent) = 4
    /\ Cardinality(FramesWithP1(c, 1)) = 2

\* C8 (as claimed, for the variant that knows the confirmation expiry): when
\* the finalize answer carries a status other than 90 00, signData fails with
\* 'Transaction signing confirmation time expired.' exactly when the status
\* is 64 01, and with 'Invalid APDU response.' for every other status.
C8_ConfirmationExpiredOnlyOn6401 ==
  \A c \in SignCalls :
    \A k \in 1..Len(calls[c].got) :
      LET g == calls[c].got[k]
      IN  ( /\ variant = "part000"
            /\ g.req.step = "finalize"
            /\ g.res.ok
            /\ ~EndsWithSuccess(g) )
            => /\ calls[c].state = "rejected"
               /\ calls[c].err.msg
                    = IF /\ byteFromEnd(g.res.data, 2) = 100
                         /\ byteFromEnd(g.res.data, 1) = 1
                      THEN "Transaction signing confirmation time expired."
                      ELSE "Invalid APDU response."

VerifyCalls == { c \in DOMAIN calls : calls[c].op = "verifyPin" }

\* The answer noted in a history entry is a 2-byte status 63 Cn.
IsTriesLeftStatus(g) ==
  /\ g.res.ok
  /\ Len(g.res.data) = 2
  /\ g.res.data[1] = 99
  /\ g.res.data[2] \in 192..207

\* C9: when the verify frame of verifyPin is answered with the status 69 82,
\* verifyPin issues the tries-left query 80 22 80 00; when that query is
\* answered with a status 63 Cn, verifyPin is rejected with
\* 'Invalid PIN-code. n tries left.', n being the low byte minus C0. On this
\* path verifyPin never resolves.
C9_InvalidPinRetry ==
  \A c \in VerifyCalls :
    (Len(calls[c].got) >= 1 /\ calls[c].got[1].res = Delivered(<<105, 130>>))
      => /\ Len(calls[c].sent) = 2
         /\ calls[c].sent[2].apdu = <<128, 34, 128, 0>>
         /\ calls[c].state # "resolved"
         /\ (Len(calls[c].got) = 2 /\ IsTriesLeftStatus(calls[c].got[2]))
              => /\ calls[c].state = "rejected"
                 /\ calls[c].err
                      = [msg |-> "Invalid PIN-code. n tries left.",
                         n |-> calls[c].got[2].res.data[2] - 192]

\* verifyPin was rejected with 2 tries left after the answers 69 82, 63 C2.
C9_Witness ==
  \E c \in VerifyCalls :
    /\ Len(calls[c].got) = 2
    /\ calls[c].got[2].res = Delivered(<<99, 194>>)
    /\ calls[c].state = "rejected"
    /\ calls[c].err.n = 2

\* C10 (as claimed): getPinTriesLeft yields a number only when the status of
\* the query's answer is in the family 63 Cn (63, then C0..CF), so every
\* value it yields, and every tries-left count reported in the
\* 'Invalid PIN-code.' error, is in 0..15.
C10_TriesLeftInRange ==
  \A c \in VerifyCalls :
    /\ calls[c].triesLeft # <<>>
         => /\ calls[c].triesLeft[1] \in 0..15
            /\ IsTriesLeftStatus(calls[c].got[Len(calls[c].got)])
    /\ calls[c].err.msg = "Invalid PIN-code. n tries left."
         => calls[c].err.n \in 0..15

\* C11: when the tries-left query that verifyPin issues after the answer
\* 69 82 fails, verifyPin is rejected with that failure and not with
\* 'Invalid PIN-code.': the status 6D 00 gives 'Wallet not initialized.', any
\* other response whose first byte is not 63, or that is not 2 bytes long,
\* gives 'Invalid APDU response.', and a failure of the transport or of the
\* tunnel is passed on unchanged.
C11_FollowUpFailure ==
  \A c \in VerifyCalls :
    ( /\ Len(calls[c].got) = 2
      /\ calls[c].got[1].res = Delivered(<<105, 130>>)
      /\ calls[c].got[2].req.step = "triesLeft" )
      => LET r == calls[c].got[2].res
         IN  /\ calls[c].state = "rejected"
             /\ ~r.ok => calls[c].err = r.err
             /\ (r.ok /\ Len(r.data) # 2)
                  => calls[c].err = Error("Invalid APDU response.")
             /\ (r.ok /\ r.data = <<109, 0>>)
                  => calls[c].err = Error("Wallet not initialized.")
             /\ (r.ok /\ Len(r.data) = 2 /\ r.data[1] # 99 /\ r.data # <<109, 0>>)
                  => calls[c].err = Error("Invalid APDU response.")

\* The follow-up was answered 6D 00 and verifyPin reports the wiped wallet.
C11_Witness ==
  \E c \in VerifyCalls :
    /\ Len(calls[c].got) = 2
    /\ calls[c].got[1].res = Delivered(<<105, 130>>)
    /\ calls[c].got[2].res = Delivered(<<109, 0>>)
    /\ calls[c].err = Error("Wallet not initialized.")

\* The operations that make a single request.
SingleOps ==
  {"getInfo", "getRandom", "getRandomID", "initWallet", "wipeoutWallet",
   "getPublicKey"}

\* The chunk frames call c has sent so far.
SentChunks(c) == SelectSeq(calls[c].sent, LAMBDA e : e.step = "chunk")

\* What C12 says of every operation but verifyPin: a single-request operation
\* makes at most one round trip; signData makes at most N+1, and each frame
\* it built is either still queued or was sent once, the finalize frame at
\* most once.
NoRetryButVerifyPin(c) ==
  /\ calls[c].op \in SingleOps => Len(calls[c].sent) <= 1
  /\ calls[c].op = "signData"
       => /\ Len(calls[c].sent) <= DocChunks(c) + 1
          /\ TimeoutAccepted(c)
               => Len(SentChunks(c)) + Len(calls[c].apdus) = DocChunks(c)
          /\ Len(calls[c].sent) - Len(SentChunks(c)) <= 1

\* verifyPin makes two round trips exactly when the first answer is the
\* 2-byte status 69 82, and never more.
VerifyPinTwoIff6982(c) ==
  /\ Len(calls[c].sent) <= 2
  /\ Len(calls[c].sent) = 2
       <=> /\ Len(calls[c].got) >= 1
           /\ calls[c].got[1].res = Delivered(<<105, 130>>)

\* C12 (as claimed): no operation retries a frame; getInfo, getRandom,
\* getRandomID, initWallet, wipeoutWallet and getPublicKey make at most one
\* round trip per call; verifyPin makes exactly one, or exactly two when and
\* only when the first answer is the 2-byte status 69 82; signData over N
\* chunks makes at most N+1 and sends no frame twice.
C12_NoRetry_VerifyAlwaysSends ==
  \A c \in DOMAIN calls :
    /\ NoRetryButVerifyPin(c)
    /\ calls[c].op = "verifyPin"
         => /\ VerifyPinTwoIff6982(c)
            /\ Len(calls[c].sent) >= 1

\* C12 (amended): as claimed, except that verifyPin makes no round trip at all
\* when the PIN length is refused client-side (under 4 or over 32 bytes), and
\* exactly one, or exactly two when and only when the first answer is the
\* 2-byte status 69 82, otherwise.
C12_NoRetry ==
  \A c \in DOMAIN calls :
    /\ NoRetryButVerifyPin(c)
    /\ calls[c].op = "verifyPin"
         => /\ VerifyPinTwoIff6982(c)
            /\ IF Len(calls[c].pin) < 4 \/ Len(calls[c].pin) > 32
               THEN Len(calls[c].sent) = 0
               ELSE Len(calls[c].sent) >= 1

\* A verifyPin call has settled after two round trips.
C12_Witness ==
  \E c \in DOMAIN calls :
    /\ calls[c].op = "verifyPin"
    /\ Len(calls[c].sent) = 2
    /\ Len(calls[c].got) = 2
    /\ calls[c].state = "rejected"

\* The last answer call c has received.
LastAnswer(c) == calls[c].got[Len(calls[c].got)]

\* C13: every exported operation (getInfo, getRandom, getRandomID, initWallet,
\* wipeoutWallet, verifyPin, getPublicKey, signData) resolves only if the last
\* response it received ends with the status 90 00; once it has received a
\* response that does not, and has sent nothing further, it is rejected.
C13_ResolvesOnlyOn9000 ==
  \A c \in DOMAIN calls :
    /\ calls[c].state = "resolved"
         => /\ calls[c].got # <<>>
            /\ EndsWithSuccess(LastAnswer(c))
    /\ ( /\ calls[c].got # <<>>
         /\ calls[c].inflight = <<>>
         /\ ~EndsWithSuccess(LastAnswer(c)) )
         => calls[c].state = "rejected"

\* wipeoutWallet has resolved, the answer to its only frame being 90 00.
C13_Witness ==
  \E c \in DOMAIN calls :
    /\ calls[c].op = "wipeoutWallet"
    /\ calls[c].state = "resolved"
    /\ Len(calls[c].got) = 1
    /\ EndsWithSuccess(LastAnswer(c))

\* Every frame call c has handed to sendAPDU or still holds in its queue,
\* with the step it belongs to.
Frames(c) ==
  { calls[c].sent[k] : k \in 1..Len(calls[c].sent) }
    \cup { [apdu |-> calls[c].apdus[k], step |-> "chunk"]
             : k \in 1..Len(calls[c].apdus) }

\* The steps whose frame is the 4-byte header alone.
HeaderOnlySteps == {"info", "triesLeft", "publicKey", "finalize"}

\* C14 (as claimed): every command frame handed to the tunnel adapter has the
\* form [80, ins, p1, p2, len, payload...] with at least 5 bytes, and its
\* length byte equals the number of payload bytes that follow it.
C14_LengthByteCountsPayload ==
  \A c \in DOMAIN calls : \A e \in Frames(c) :
    /\ Len(e.apdu) >= 5
    /\ e.apdu[1] = 128
    /\ e.apdu[5] = Len(e.apdu) - 5

\* C14 (amended): every command frame starts with 80 and has at least 4
\* bytes.  The frames of getInfo, getPublicKey, the tries-left query and the
\* signData finalize step are the 4-byte header alone; getRandom's frame has
\* 5 bytes, the fifth being the requested length (as a byte) with no payload
\* after it; every other frame (initWallet, verifyPin, wipeoutWallet,
\* getRandomID, signData chunks) has at least 5 bytes and its length byte
\* equals the number of payload bytes that follow it.
C14_FrameForm ==
  \A c \in DOMAIN calls : \A e \in Frames(c) :
    /\ Len(e.apdu) >= 4
    /\ e.apdu[1] = 128
    /\ IF e.step \in HeaderOnlySteps
       THEN Len(e.apdu) = 4
       ELSE IF e.step = "random"
            THEN Len(e.apdu) = 5 /\ e.apdu[5] = calls[c].length % 256
            ELSE Len(e.apdu) >= 5 /\ e.apdu[5] = Len(e.apdu) - 5

\* A verifyPin call has sent both its frames: the verify frame, whose length
\* byte counts the PIN bytes, and the 4-byte tries-left query.
C14_Witness ==
  \E c \in DOMAIN calls :
    /\ calls[c].op = "verifyPin"
    /\ Len(calls[c].sent) = 2
    /\ Len(calls[c].sent[1].apdu) = 5 + Len(calls[c].pin)
    /\ Len(calls[c].sent[2].apdu) = 4

\* The getRandom calls made.
RandomCalls == { c \in DOMAIN calls : calls[c].op = "getRandom" }

\* C15 (as claimed): getRandom called with an integer length outside [1,128]
\* is rejected with 'Invalid length.' and hands no frame to the transport.
C15_LengthOutsideRangeRejected ==
  \A c \in RandomCalls :
    calls[c].length \notin 1..128
      => /\ calls[c].state = "rejected"
         /\ calls[c].err = Error("Invalid length.")
         /\ calls[c].sent = <<>>

\* C16: for every length in [1,128], getRandom(length) sends the single frame
\* 80 C0 00 00 <length>; whenever it resolves, the value has exactly length
\* bytes and is the response without its 2 status bytes; a response ending
\* with 90 00 whose size is not length + 2 is rejected as malformed.
C16_RandomExactLength ==
  \A c \in RandomCalls :
    calls[c].length \in 1..128
      => /\ calls[c].sent
              = << [apdu |-> <<128, 192, 0, 0, calls[c].length>>,
                    step |-> "random"] >>
         /\ calls[c].state = "resolved"
              => /\ Len(calls[c].value) = calls[c].length
                 /\ calls[c].value \o <<144, 0>> = LastAnswer(c).res.data
         /\ ( /\ calls[c].got # <<>>
              /\ EndsWithSuccess(LastAnswer(c))
              /\ Len(LastAnswer(c).res.data) # calls[c].length + 2 )
              => /\ calls[c].state = "rejected"
                 /\ calls[c].err = Error("Invalid APDU response.")

\* getRandom(128) has resolved with 128 bytes.
C16_Witness ==
  \E c \in RandomCalls :
    /\ calls[c].length = 128
    /\ calls[c].state = "resolved"
    /\ Len(calls[c].value) = 128

\* The getInfo calls made.
InfoCalls == { c \in DOMAIN calls : calls[c].op = "getInfo" }

\* The number a string of decimal digits denotes.
DigitValue(ch) ==
  CHOOSE d \in 0..9 : <<"0", "1", "2", "3", "4", "5", "6", "7", "8", "9">>[d + 1] = ch

RECURSIVE DecimalValue(_)
DecimalValue(s) ==
  IF s = <<>>
  THEN 0
  ELSE 10 * DecimalValue(SubSeq(s, 1, Len(s) - 1)) + DigitValue(s[Len(s)])

\* A decimal numeral as toString writes it: digits only, no leading zero.
IsDecimal(s) ==
  /\ s # <<>>
  /\ \A k \in 1..Len(s) : s[k] \in {"0", "1", "2", "3", "4", "5", "6", "7", "8", "9"}
  /\ Len(s) > 1 => s[1] # "0"

\* The version text reads <decimal of major>.<decimal of minor>.
VersionReads(version, major, minor) ==
  \E p \in 1..Len(version) :
    /\ version[p] = "."
    /\ IsDecimal(SubSeq(version, 1, p - 1))
    /\ IsDecimal(SubSeq(version, p + 1, Len(version)))
    /\ DecimalValue(SubSeq(version, 1, p - 1)) = major
    /\ DecimalValue(SubSeq(version, p + 1, Len(version))) = minor

\* C17: getInfo resolves exactly when the response is 10 bytes long in total
\* and ends with 90 00, and is rejected on any other answer; the result has
\* version = decimal(byte 0) '.' decimal(byte 1), walletInitialized = bit 0 of
\* byte 2 and pinVerified = bit 1 of byte 2, so that [1,2,3,...,90,00] decodes
\* to "1.2", true, true.
C17_GetInfoDecoding ==
  \A c \in InfoCalls :
    calls[c].got # <<>>
      => LET a == LastAnswer(c).res
             ok == a.ok /\ Len(a.data) = 10 /\ EndsWithSuccess(LastAnswer(c))
         IN  /\ calls[c].state = IF ok THEN "resolved" ELSE "rejected"
             /\ ok => /\ VersionReads(calls[c].info.version, a.data[1], a.data[2])
                      /\ calls[c].info.walletInitialized <=> (a.data[3] % 2 = 1)
                      /\ calls[c].info.pinVerified <=> (a.data[3] \div 2) % 2 = 1
             /\ (ok /\ a.data = <<1, 2, 3, 0, 0, 0, 0, 0, 144, 0>>)
                  => calls[c].info = [ version |-> <<"1", ".", "2">>,
                                       walletInitialized |-> TRUE,
                                       pinVerified |-> TRUE ]

\* getInfo has resolved on a 10-byte response whose version bytes have two
\* digits each and whose flag byte has only bit 0 set.
C17_Witness ==
  \E c \in InfoCalls :
    /\ calls[c].state = "resolved"
    /\ calls[c].info = [ version |-> <<"1", "0", ".", "2", "1">>,
                         walletInitialized |-> TRUE,
                         pinVerified |-> FALSE ]

\* The initWallet calls made.
InitCalls == { c \in DOMAIN calls : calls[c].op = "initWallet" }

\* The secret of call c is not of the size its variant requires.
SecretRefused(c) ==
  IF variant = "index"
  THEN Len(calls[c].secret) # 32
  ELSE \/ calls[c].secretType = "privateKey" /\ Len(calls[c].secret) # 32
       \/ calls[c].secretType = "xrpSecret" /\ Len(calls[c].secret) # 16
       \/ calls[c].secretType \notin {"privateKey", "xrpSecret"}

\* The PIN of call c has a length the client accepts.
PinAccepted(c) == Len(calls[c].pin) \in 4..32

C19_PinLength_OneFrame ==
  \A c \in InitCalls \cup VerifyCalls :
    /\ ~PinAccepted(c)
         => /\ calls[c].state = "rejected"
            /\ calls[c].err = Error("Invalid pin length.")
            /\ calls[c].sent = <<>>
    /\ (PinAccepted(c) /\ (calls[c].op = "initWallet" => ~SecretRefused(c)))
         => Len(calls[c].sent) = 1

\* C19 (amended): whenever the PIN is shorter than 4 or longer than 32 bytes,
\* initWallet and verifyPin are rejected and make no transport call; the error
\* is 'Invalid pin length.', except that initWallet reports a secret of the
\* wrong size or type first.  For PIN lengths 4..32, initWallet with a valid
\* secret sends exactly one frame, and verifyPin sends its verify frame and
\* nothing else but the tries-left query after a 69 82 answer.
C19_PinLength ==
  \A c \in InitCalls \cup VerifyCalls :
    /\ ~PinAccepted(c)
         => /\ calls[c].state = "rejected"
            /\ calls[c].sent = <<>>
            /\ IF calls[c].op = "initWallet" /\ SecretRefused(c)
               THEN calls[c].err.msg \in { "Invalid private key length.",
                                           "Invalid secret length.",
                                           "Invalid secret type." }
               ELSE calls[c].err = Error("Invalid pin length.")
    /\ (PinAccepted(c) /\ calls[c].op = "initWallet" /\ ~SecretRefused(c))
         => /\ Len(calls[c].sent) = 1
            /\ calls[c].sent[1].step = "init"
    /\ (PinAccepted(c) /\ calls[c].op = "verifyPin")
         => /\ Len(calls[c].sent) \in {1, 2}
            /\ calls[c].sent[1] = [apdu |-> verifyPinApdu(calls[c].pin),
                                   step |-> "verify"]
            /\ Len(calls[c].sent) = 2
                 => /\ calls[c].sent[2].step = "triesLeft"
                    /\ calls[c].got[1].res = Delivered(<<105, 130>>)

\* initWallet with a valid secret and a 33-byte PIN has been rejected without
\* a frame.
C19_Witness ==
  \E c \in InitCalls :
    /\ ~SecretRefused(c)
    /\ Len(calls[c].pin) = 33
    /\ calls[c].state = "rejected"
    /\ calls[c].err = Error("Invalid pin length.")
    /\ calls[c].sent = <<>>

\* C20: the frame initWallet sends is [80, 20, 00, P2, 1+p+s, p, PIN (p
\* bytes), secret (s bytes)], p and s being the PIN and secret lengths: its
\* length byte equals its payload size and never exceeds 65, the PIN comes
\* before the secret, and in src/unnamed/part_000 P2 is 00 for secretType
\* 'privateKey' and 01 for 'xrpSecret' (in src/src/index.js it is 00).
C20_InitWalletFrame ==
  \A c \in InitCalls : \A k \in 1..Len(calls[c].sent) :
    LET apdu == calls[c].sent[k].apdu
        p == Len(calls[c].pin)
        s == Len(calls[c].secret)
    IN  /\ Len(apdu) = 6 + p + s
        /\ SubSeq(apdu, 1, 3) = <<128, 32, 0>>
        /\ apdu[4] = IF variant = "part000" /\ calls[c].secretType = "xrpSecret"
                     THEN 1 ELSE 0
        /\ variant = "part000"
             => calls[c].secretType \in {"privateKey", "xrpSecret"}
        /\ apdu[5] = 1 + p + s
        /\ apdu[5] = Len(apdu) - 5
        /\ apdu[5] <= 65
        /\ apdu[6] = p
        /\ SubSeq(apdu, 7, 6 + p) = calls[c].pin
        /\ SubSeq(apdu, 7 + p, 6 + p + s) = calls[c].secret

\* initWallet has sent the longest frame there is, a 32-byte PIN followed by
\* a 32-byte private key: length byte 65.
C20_Witness ==
  \E c \in InitCalls :
    /\ Len(calls[c].sent) = 1
    /\ calls[c].sent[1].apdu[5] = 65
    /\ Len(calls[c].pin) = 32
    /\ Len(calls[c].secret) = 32

\* The steps that report 6D 00 as 'Wallet not initialized.'.
NotInitializedSteps ==
  {"wipeout", "verify", "triesLeft", "publicKey", "randomID", "chunk"}

\* The answer noted in a history entry ends with the status 6D 00.
EndsWith6D00(g) ==
  /\ g.res.ok
  /\ byteFromEnd(g.res.data, 2) = 109
  /\ byteFromEnd(g.res.data, 1) = 0

\* C21: the status 6D 00 is classified by the operation it answers: initWallet
\* reports 'Wallet already initialized.', whereas wipeoutWallet, verifyPin,
\* the tries-left query, getPublicKey, getRandomID and the chunk steps of
\* signData report 'Wallet not initialized.'.  (getPublicKey and getRandomID
\* read the status at the end of a response of any length, the others from a
\* 2-byte response.)
C21_6D00ByContext ==
  \A c \in DOMAIN calls : \A k \in 1..Len(calls[c].got) :
    LET g == calls[c].got[k]
    IN  /\ (g.req.step = "init" /\ g.res = Delivered(<<109, 0>>))
             => /\ calls[c].state = "rejected"
                /\ calls[c].err = Error("Wallet already initialized.")
        /\ ( /\ g.req.step \in NotInitializedSteps
             /\ \/ g.res = Delivered(<<109, 0>>)
                \/ g.req.step \in {"publicKey", "randomID"} /\ EndsWith6D00(g) )
             => /\ calls[c].state = "rejected"
                /\ calls[c].err = Error("Wallet not initialized.")

\* initWallet has been answered 6D 00 and rejected.
C21_Witness ==
  \E c \in InitCalls :
    /\ Len(calls[c].got) = 1
    /\ calls[c].got[1].res = Delivered(<<109, 0>>)
    /\ calls[c].state = "rejected"

\* The getPublicKey calls made.
PublicKeyCalls == { c \in DOMAIN calls : calls[c].op = "getPublicKey" }

\* The total response length getPublicKey requires in each variant.
DocPublicKeyResponse == IF variant = "index" THEN 67 ELSE 35

\* C22: getPublicKey reads the device status before it tests the length: a
\* response ending 6D 00 is rejected with 'Wallet not initialized.' and one
\* ending 69 82 with 'PIN-code not verified.', whatever its length; the call
\* resolves only for a response ending 90 00 whose total length is 67
\* (src/src/index.js) or 35 (src/unnamed/part_000), and the value is then the
\* response without its 2 status bytes (65 or 33 bytes).
C22_PublicKeyStatusFirst ==
  \A c \in PublicKeyCalls :
    calls[c].got # <<>>
      => LET g == LastAnswer(c)
         IN  /\ EndsWith6D00(g)
                  => /\ calls[c].state = "rejected"
                     /\ calls[c].err = Error("Wallet not initialized.")
             /\ ( /\ g.res.ok
                  /\ byteFromEnd(g.res.data, 2) = 105
                  /\ byteFromEnd(g.res.data, 1) = 130 )
                  => /\ calls[c].state = "rejected"
                     /\ calls[c].err = Error("PIN-code not verified.")
             /\ calls[c].state = "resolved"
                  <=> EndsWithSuccess(g) /\ Len(g.res.data) = DocPublicKeyResponse
             /\ calls[c].state = "resolved"
                  => /\ calls[c].value \o <<144, 0>> = g.res.data
                     /\ Len(calls[c].value) = DocPublicKeyResponse - 2

\* getPublicKey has been rejected on a 3-byte response that ends 69 82.
C22_Witness ==
  \E c \in PublicKeyCalls :
    /\ calls[c].got # <<>>
    /\ LastAnswer(c).res = Delivered(<<171, 105, 130>>)
    /\ calls[c].err = Error("PIN-code not verified.")

\* The least length of decoded data each variant's sendAPDU accepts.
DocMinDecoded == IF variant = "index" THEN 2 ELSE 7

\* What C23 says of the outcomes that are not a long enough decoded frame: a
\* transport failure is passed on unchanged, a response without signatureData
\* is 'Failed to send an APDU.', a decoded frame under the minimum length is
\* 'Invalid response APDU.'; and what sendAPDU rejects with, the operation
\* rejects with.
TunnelFailures(c, g) ==
  /\ g.raw.kind = "error" => g.res = Failed(g.raw.err)
  /\ g.raw.kind = "nosig" => g.res = Failed(Error("Failed to send an APDU."))
  /\ (g.raw.kind = "data" /\ Len(g.raw.data) < DocMinDecoded)
       => g.res = Failed(Error("Invalid response APDU."))
  /\ ~g.res.ok => calls[c].state = "rejected" /\ calls[c].err = g.res.err

\* C23 (as claimed): sendAPDU classifies the outcome of its transport call: a
\* transport failure is passed on unchanged; a response without signatureData
\* is rejected with 'Failed to send an APDU.'; a decoded frame shorter than
\* the minimum length with 'Invalid response APDU.'; otherwise the decoded
\* frame is delivered.
C23_TunnelOutcomes_OtherwiseDelivered ==
  \A c \in DOMAIN calls : \A k \in 1..Len(calls[c].got) :
    LET g == calls[c].got[k]
    IN  /\ TunnelFailures(c, g)
        /\ (g.raw.kind = "data" /\ Len(g.raw.data) >= DocMinDecoded)
             => g.res.ok

\* C23 (amended): as claimed, except that in src/unnamed/part_000 a decoded
\* frame of 7 bytes or more that does not begin with 01 00 00 00 00 is also
\* rejected with 'Invalid response APDU.', and what is delivered there is the
\* decoded frame without these 5 bytes; in src/src/index.js the decoded frame
\* is delivered as it is.
C23_TunnelOutcomes ==
  \A c \in DOMAIN calls : \A k \in 1..Len(calls[c].got) :
    LET g == calls[c].got[k]
    IN  /\ TunnelFailures(c, g)
        /\ (g.raw.kind = "data" /\ Len(g.raw.data) >= DocMinDecoded)
             => IF variant = "index"
                THEN g.res = Delivered(g.raw.data)
                ELSE IF SubSeq(g.raw.data, 1, 5) = <<1, 0, 0, 0, 0>>
                     THEN g.res = Delivered(SubSeq(g.raw.data, 6, Len(g.raw.data)))
                     ELSE g.res = Failed(Error("Invalid response APDU."))

\* A transport timeout has reached the caller of an operation as it was.
C23_Witness ==
  \E c \in DOMAIN calls :
    /\ calls[c].got # <<>>
    /\ LastAnswer(c).raw.kind = "error"
    /\ LastAnswer(c).raw.err = Error("U2F timeout")
    /\ calls[c].state = "rejected"
    /\ calls[c].err = Error("U2F timeout")

\* C26: in src/unnamed/part_000, signData called with a timeout below 60
\* seconds is rejected with 'Timeout should be at least 60 seconds.' before
\* any frame is built or sent; with a timeout of 60 or more (the demo page
\* passes 70) the timeout is not objected to and the first chunk of the
\* payload, the start frame for offset 0, is sent.
C26_MinimumTimeout ==
  \A c \in SignCalls :
    variant = "part000"
      => /\ calls[c].timeout < 60
              => /\ calls[c].state = "rejected"
                 /\ calls[c].err = Error("Timeout should be at least 60 seconds.")
                 /\ calls[c].apdus = <<>>
                 /\ calls[c].sent = <<>>
         /\ calls[c].timeout >= 60
              => /\ calls[c].err # Error("Timeout should be at least 60 seconds.")
                 /\ calls[c].rawData # <<>>
                      => /\ Len(calls[c].sent) >= 1
                         /\ calls[c].sent[1].step = "chunk"
                         /\ SubSeq(calls[c].sent[1].apdu, 1, 4) = <<128, 242, 0, 0>>

\* signData(60, ...) and signData(70, ...) differ from signData(59, ...): here
\* a call with exactly 60 seconds has its first chunk on the transport.
C26_Witness ==
  \E c \in SignCalls :
    /\ variant = "part000"
    /\ calls[c].timeout = 60
    /\ Len(calls[c].sent) = 1
    /\ calls[c].inflight # <<>>

\* The transport answers an outstanding request of some call.
Answer ==
  \/ ChunkAnswered \/ FinalizeAnswered \/ VerifyAnswered \/ TriesLeftAnswered
  \/ InfoAnswered \/ RandomAnswered \/ RandomIDAnswered \/ InitAnswered
  \/ WipeoutAnswered \/ PublicKeyAnswered

\* The transport answers every request it is given, with a response or with a
\* failure (sign() settles when the device answers or the timeout elapses).
SpecLive == Init /\ [][Next]_vars /\ WF_vars(Answer)

\* A settled promise stays as it settled.
SettlesOnce ==
  \A c \in DOMAIN calls :
    calls[c].state # "pending"
      => /\ calls'[c].state = calls[c].state
         /\ calls'[c].value = calls[c].value
         /\ calls'[c].err = calls[c].err

\* signData has settled by the time N+1 answers have arrived, and sends no
\* more than N+1 frames.
SignSettlesWithinN1 ==
  \A c \in SignCalls :
    /\ Len(calls[c].sent) <= DocChunks(c) + 1
    /\ Len(calls[c].got) = DocChunks(c) + 1 => calls[c].state # "pending"

\* C25: provided the transport eventually answers every request it is given,
\* every call of every operation eventually settles, and it settles exactly
\* once: once resolved or rejected it stays so, with the same value or error;
\* signData over N chunks settles after at most N+1 round trips.
C25_EveryCallSettles ==
  /\ \A c \in CallIds :
       (calls[c].op # "none") ~> (calls[c].state # "pending")
  /\ [][SettlesOnce]_vars
  /\ []SignSettlesWithinN1

\* signData over MaxChunks chunks has resolved after MaxChunks + 1 round trips.
C25_Witness ==
  \E c \in SignCalls :
    /\ DocChunks(c) = MaxChunks
    /\ Len(calls[c].got) = MaxChunks + 1
    /\ calls[c].state = "resolved"

\* C30: every response frame sendAPDU delivers to an operation has at least 2
\* bytes, so the two trailing status bytes an operation reads are inside the
\* frame.  In src/unnamed/part_000 a frame is delivered only if the decoded
\* data has at least 7 bytes and begins with 01 00 00 00 00, and it is that
\* data without these 5 bytes; in src/src/index.js the decoded data is
\* delivered unchanged when it has at least 2 bytes.
C30_DeliveredFrames ==
  \A c \in DOMAIN calls : \A k \in 1..Len(calls[c].got) :
    LET g == calls[c].got[k]
    IN  g.res.ok
          => /\ Len(g.res.data) >= 2
             /\ byteFromEnd(g.res.data, 2) \in 0..255
             /\ byteFromEnd(g.res.data, 1) \in 0..255
             /\ g.raw.kind = "data"
             /\ IF variant = "part000"
                THEN /\ Len(g.raw.data) >= 7
                     /\ SubSeq(g.raw.data, 1, 5) = <<1, 0, 0, 0, 0>>
                     /\ g.res.data = SubSeq(g.raw.data, 6, Len(g.raw.data))
                     /\ Len(g.res.data) = Len(g.raw.data) - 5
                ELSE /\ Len(g.raw.data) >= 2
                     /\ g.res.data = g.raw.data

\* In part_000, decoded data of exactly 7 bytes has been delivered as the
\* 2-byte frame 90 00.
C30_Witness ==
  \E c \in DOMAIN calls :
    /\ variant = "part000"
    /\ calls[c].got # <<>>
    /\ LastAnswer(c).raw.data = <<1, 0, 0, 0, 0, 144, 0>>
    /\ LastAnswer(c).res = Delivered(<<144, 0>>)

\* The steps that accept a response of the status alone.
StatusOnlySteps == {"init", "wipeout", "verify", "triesLeft", "chunk"}

\* C31: initWallet, wipeoutWallet, verifyPin, the tries-left query and each
\* chunk step of signData test the response length before the status: a
\* delivered response that is not exactly 2 bytes long is rejected with
\* 'Invalid APDU response.', and nothing further is sent, even when it ends
\* with 90 00 or a recognised domain status; so these steps succeed, go on or
\* report a domain error only on a response that is the status alone.
C31_LengthBeforeStatus ==
  \A c \in DOMAIN calls : \A k \in 1..Len(calls[c].got) :
    LET g == calls[c].got[k]
    IN  (g.req.step \in StatusOnlySteps /\ g.res.ok)
          => /\ Len(g.res.data) # 2
                  => /\ k = Len(calls[c].got)
                     /\ calls[c].inflight = <<>>
                     /\ calls[c].state = "rejected"
                     /\ calls[c].err = Error("Invalid APDU response.")
             /\ ( \/ k < Len(calls[c].got)
                  \/ calls[c].inflight # <<>>
                  \/ calls[c].state = "resolved"
                  \/ calls[c].err.msg \in
                       { "Wallet already initialized.", "Wallet not initialized.",
                         "PIN-code not verified.", "Unsupported PIN-code length.",
                         "PIN-code blocked.", "Invalid PIN-code. n tries left." } )
                  => Len(g.res.data) = 2

\* verifyPin has been answered with a 3-byte response ending 69 82: it is
\* rejected as malformed and the tries-left query is not sent.
C31_Witness ==
  \E c \in VerifyCalls :
    /\ Len(calls[c].got) = 1
    /\ calls[c].got[1].res = Delivered(<<171, 105, 130>>)
    /\ Len(calls[c].sent) = 1
    /\ calls[c].err = Error("Invalid APDU response.")

(***************************************************************************)
(* Two calls side by side: the caller may start the second while the first *)
(* is in flight, or after it has settled.  The operations are signData and *)
(* getInfo (the demo page calls getInfo on load and signData on a click);  *)
(* the inputs are few, the interleavings are all there.                    *)
(***************************************************************************)
TwoCallIds == {"c1", "c2"}

\* The data each of the two calls signs: the bytes differ from call to call.
TwoPayload(c, n) ==
  [i \in 1..n |-> (PayloadByte(i - 1) + (IF c = "c1" THEN 0 ELSE 100)) % 256]

\* One chunk, two chunks with a short second one, two full chunks.
TwoPayloadLengths(v) == {1, maxChunkSize(v) + 1, 2 * maxChunkSize(v)}

\* A device frame as the transport of each variant carries it.
Wrap(v, frame) == IF v = "index" THEN frame ELSE ResponsePrefix \o frame

\* The transport's answers here: success, the status 6D 00, a timeout.
TwoOutcomes(v) ==
  { [kind |-> "data", data |-> Wrap(v, <<144, 0>>), err |-> Error("")],
    [kind |-> "data", data |-> Wrap(v, <<109, 0>>), err |-> Error("")],
    [kind |-> "error", data |-> <<>>, err |-> Error("U2F timeout")] }

InitTwo ==
  /\ variant \in Variants
  /\ calls = [c \in TwoCallIds |-> NoCall]
  /\ codec = NoCodec

TwoCallSignData ==
  \E c \in DOMAIN calls, n \in TwoPayloadLengths(variant) :
    signData(c, 70, TwoPayload(c, n))

TwoCallGetInfo == \E c \in DOMAIN calls : getInfo(c, 30)

TwoChunkAnswered ==
  \E c \in DOMAIN calls, o \in TwoOutcomes(variant) :
    \E i \in 1..Len(calls[c].inflight) : signData_chunk(c, i, o)

TwoFinalizeAnswered ==
  \E c \in DOMAIN calls, o \in TwoOutcomes(variant) :
    \E i \in 1..Len(calls[c].inflight) : signData_finalize(c, i, o)

TwoInfoAnswered ==
  \E c \in DOMAIN calls, o \in TwoOutcomes(variant) :
    \E i \in 1..Len(calls[c].inflight) : getInfo_then(c, i, o)

NextTwo ==
  \/ TwoCallSignData
  \/ TwoCallGetInfo
  \/ TwoChunkAnswered
  \/ TwoFinalizeAnswered
  \/ TwoInfoAnswered

SpecTwo == InitTwo /\ [][NextTwo]_vars

\* The requests handed to the transport and not answered yet, of all calls.
Outstanding ==
  UNION { { <<c, i>> : i \in 1..Len(calls[c].inflight) } : c \in DOMAIN calls }

\* C28 (as claimed): across all the operations the caller starts, a second one
\* started while an earlier one is in flight included, the client has at most
\* one transport request outstanding at any time.
C28_OneOutstandingAcrossCalls == Cardinality(Outstanding) <= 1

\* The k-th chunk frame of call c as its own payload determines it.
ExpectedChunk(c, k) ==
  LET from == (k - 1) * DocChunkSize
      to   == IF k * DocChunkSize > Len(calls[c].rawData)
              THEN Len(calls[c].rawData) ELSE k * DocChunkSize
  IN  <<128, 242, IF k = 1 THEN 0 ELSE 1, 0, to - from>>
        \o SubSeq(calls[c].rawData, from + 1, to)

\* All the frames call c sends when every answer is a success.
ExpectedFrames(c) ==
  [k \in 1..DocChunks(c) |-> ExpectedChunk(c, k)] \o << <<128, 242, 2, 0>> >>

\* The chunk answers of call c that were the success 90 00.
ChunkSuccesses(c) ==
  { k \in 1..Len(calls[c].got) :
      calls[c].got[k].req.step = "chunk" /\ IsSuccess2(calls[c].got[k]) }

\* C27: the client keeps nothing between calls: the frames a signData call
\* sends are determined by its own arguments and the responses it has
\* received, whatever another call did before or does meanwhile; so a fresh
\* call made after an earlier one failed or timed out mid-transfer starts with
\* the start-flag frame for offset 0 and goes on as if it were the only call.
C27_FramesFromOwnCallOnly ==
  \A c \in SignCalls :
    (TimeoutAccepted(c) /\ calls[c].rawData # <<>>)
      => /\ Len(calls[c].sent) = 1 + Cardinality(ChunkSuccesses(c))
         /\ \A k \in 1..Len(calls[c].sent) :
              calls[c].sent[k].apdu = ExpectedFrames(c)[k]
         /\ SubSeq(calls[c].sent[1].apdu, 1, 4) = <<128, 242, 0, 0>>

\* One signData call timed out on its second chunk, the first having been
\* accepted; the other call has sent its start frame and its second chunk.
C27_Witness ==
  \E c \in SignCalls, d \in SignCalls :
    /\ c # d
    /\ Len(calls[c].got) = 2
    /\ IsSuccess2(calls[c].got[1])
    /\ calls[c].got[2].raw.kind = "error"
    /\ calls[c].state = "rejected"
    /\ Len(calls[d].sent) = 2
    /\ calls[d].sent[1].apdu[3] = 0
    /\ calls[d].state = "pending"

\* C29: the chunk queue of a signData call is that call's alone: with two
\* signData calls in flight and their callbacks interleaved in any way, the
\* chunk frames a call has sent, followed by those still in its queue, are
\* the chunk frames of its own payload, in order and once each; none is taken
\* or sent by the other call.
C29_QueueOwnedByCall ==
  \A c \in SignCalls :
    TimeoutAccepted(c)
      => /\ ChunkFrames(c) = [k \in 1..DocChunks(c) |-> ExpectedChunk(c, k)]
         /\ \A k \in 1..Len(SentChunks(c)) :
              SentChunks(c)[k].apdu = ExpectedChunk(c, k)

\* Two signData calls with different payloads are in flight at once, each
\* waiting for the answer to its second chunk.
C29_Witness ==
  /\ \A c \in TwoCallIds :
       /\ c \in DOMAIN calls
       /\ calls[c].op = "signData"
       /\ Len(SentChunks(c)) = 2
       /\ Len(calls[c].inflight) = 1
  /\ calls["c1"].rawData # calls["c2"].rawData

(***************************************************************************)
(* The base64 conversions on their own: the standard base64 text of a byte *)
(* sequence is made URL-safe and then made standard again.                 *)
(***************************************************************************)
InitB64 ==
  /\ variant \in Variants
  /\ calls = [c \in CallIds |-> NoCall]
  /\ codec \in { [NoCodec EXCEPT !.stage = "standard", !.b = toBase64(x)]
                   : x \in B64Inputs }

ApplyWebSafe64 ==
  /\ codec.stage = "standard"
  /\ codec' = [codec EXCEPT !.stage = "websafe", !.web = webSafe64(codec.b)]
  /\ UNCHANGED <<variant, calls>>

ApplyNormal64 ==
  /\ codec.stage = "websafe"
  /\ codec' = [codec EXCEPT !.stage = "normal", !.back = normal64(codec.web)]
  /\ UNCHANGED <<variant, calls>>

NextB64 == ApplyWebSafe64 \/ ApplyNormal64

SpecB64 == InitB64 /\ [][NextB64]_vars

\* The number of '=' characters at the end of a text.
PaddingOf(text) == Len(text) - Len(stripPadding(text))

\* C24: for every standard base64 text b of a byte sequence,
\* normal64(webSafe64(b)) = b: webSafe64 puts '-' for '+' and '_' for '/' and
\* strips the padding, and normal64 puts the characters back and exactly the
\* padding that was stripped (0, 1 or 2 '=').
C24_Base64RoundTrip ==
  /\ codec.stage \in {"websafe", "normal"}
       => /\ Len(codec.web) = Len(codec.b) - PaddingOf(codec.b)
          /\ \A i \in 1..Len(codec.web) :
               /\ codec.web[i] \notin {"+", "/", "="}
               /\ codec.web[i] = IF codec.b[i] = "+" THEN "-"
                                 ELSE IF codec.b[i] = "/" THEN "_"
                                 ELSE codec.b[i]
  /\ codec.stage = "normal"
       => /\ codec.back = codec.b
          /\ PaddingOf(codec.back) = PaddingOf(codec.b)
          /\ PaddingOf(codec.back) \in 0..2

\* A text with '+', '/' and one '=' of padding has made the round trip.
C24_Witness ==
  /\ codec.stage = "normal"
  /\ PaddingOf(codec.b) = 1
  /\ \E i \in 1..Len(codec.b) : codec.b[i] = "+"
  /\ \E i \in 1..Len(codec.b) : codec.b[i] = "/"
  /\ \E i \in 1..Len(codec.web) : codec.web[i] = "-"
  /\ codec.back = codec.b

=============================================================================
